---- MODULE Spec2Model ----
(***************************************************************************)
(* State machine of the SvgTo3D component (src/src/components/SvgTo3D.vue) *)
(* of bekuto3d: the shape list, the visible/full index mapping, the        *)
(* selection state with its two lock flags, and document loading.          *)
(*                                                                         *)
(* Numbers with one decimal (depth, startZ) are kept in tenths: 2.1 is 21. *)
(* Indices are zero-based as in the source; TLA+ sequences are one-based,  *)
(* so the shape at index i is svgShapes[i + 1].                            *)
(*                                                                         *)
(* Spec is the whole component with one ingestion in flight; IngestSpec    *)
(* is its ingestion flows with two in flight; FnSpec follows single calls  *)
(* of isValidSvg, convertBitmapToSvg and subtractCylinder (useCsg.ts).     *)
(***************************************************************************)
EXTENDS Integers, Sequences, FiniteSets, TLC

\* ------------------------------------------------------------------ bounds
\* Largest number of shapes a user document yields.
MaxShapes == 2
\* Number of shapes the bundled default document yields.
DefaultDocShapes == 3
\* Largest number of asynchronous ingestions in flight at once.
MaxPending == 1
\* The same where the ingestion flows run without the row handlers.
MaxInFlight == 2
\* Longest text, in tokens, handed to isValidSvg or returned by the tracer.
MaxCodeLen == 4
\* Largest width and height of a raster image, in pixels.
MaxImage == 2
\* Number of distinct geometries handed to subtractCylinder.
MaxGeometry == 2

\* --------------------------------------------------------------- constants
\* null (no index); -1, the miss value of findIndex, is a different value.
NULL == -2
defaultDepth == 20
defaultStartZ == 0
defaultSize == 37
defaultSvgOffsetList == <<0, 21>>
defaultSvgDepthList == <<21, 0, 10, 10, 10, 20, 10, 14, 16>>
\* min / max of the two number inputs, in tenths
DepthMin == 0
DepthMax == 100
StartZMin == -100
StartZMax == 100
\* convertBitmapToSvg
padding == 8
cornerRadius == 8
\* subtractCylinder: radius 2.5 and height 100, in tenths
cylinderRadius == 25
cylinderHeight == 1000
radialSegments == 32

\* ------------------------------------------------------------------ inputs
\* Values a user types into the depth and startZ inputs (tenths).
DepthInputs == {-50, 0, 20, 990}
StartZInputs == {-990, 990}
\* Colors: 0 is the color the loader gives, 1 a color picked by the user.
ColorInputs == {1}
\* Scale targets a user types.
SizeInputs == {50}
\* Documents: a text that passes or fails isValidSvg, and the number of
\* shapes the loader extracts from it.
Docs == {[valid |-> FALSE, n |-> 0]} \cup {[valid |-> TRUE, n |-> k] : k \in 0..MaxShapes}
DefaultDoc == [valid |-> TRUE, n |-> DefaultDocShapes]
NoCode == [valid |-> FALSE, n |-> -1]
\* Texts a user types into the text area: none, one failing and one passing
\* isValidSvg.
CodeInputs == {NoCode, [valid |-> FALSE, n |-> 0], [valid |-> TRUE, n |-> 1]}
\* Visible indices the render surface sends: null, or an index, which may
\* be one past the last visible shape.
ShownIndexInputs == {NULL} \cup (0..MaxShapes)

\* No function call is followed: the component's own state machine runs.
NoCall == [fn |-> "none"]

VARIABLES
    svgShapes,            \* ShapeWithColor[]: records id, color, depth, startZ
    selectedShapeIndex,   \* hovered full index, NULL, or -1
    editingInputIndex,    \* editing full index or NULL
    isExporting,
    isDefaultSvg,
    size,                 \* scale target
    fileName,
    svgCode,              \* text-area content: NoCode when empty, else a document
    pending,              \* asynchronous ingestions in flight, in start order
    sizeResetPending,     \* mountSVG's nextTick callback is queued
    call                  \* a function call followed step by step, or NoCall

vars == <<svgShapes, selectedShapeIndex, editingInputIndex, isExporting,
          isDefaultSvg, size, fileName, svgCode, pending, sizeResetPending, call>>

\* ----------------------------------------------------------------- helpers
\* Array.prototype.findIndex(s => s === target): object identity is the id.
FindIndex(seq, target) ==
    IF \E i \in 1..Len(seq) : seq[i].id = target
    THEN (CHOOSE i \in 1..Len(seq) :
            /\ seq[i].id = target
            /\ \A j \in 1..(i - 1) : seq[j].id # target) - 1
    ELSE -1

\* Mutant of ShownOf: the filter is dropped.
ShownOfAll(shapes) == shapes

\* shapes.filter(i => i.depth): a number is truthy unless it is 0.
ShownOf(shapes) == SelectSeq(shapes, LAMBDA s : s.depth # 0)

shownShapes == ShownOf(svgShapes)

\* Mutant of ToShownIndexIn: the shape is looked up in the full list.
ToShownIndexInFull(shapes, index) ==
    IF index \in 0..(Len(shapes) - 1)
    THEN FindIndex(shapes, shapes[index + 1].id)
    ELSE -1

ToShownIndexIn(shapes, index) ==
    IF index \in 0..(Len(shapes) - 1)
    THEN FindIndex(ShownOf(shapes), shapes[index + 1].id)
    ELSE -1     \* shapes[index] is undefined, no element is undefined

ToSvgIndexIn(shapes, index) ==
    IF index \in 0..(Len(ShownOf(shapes)) - 1)
    THEN FindIndex(shapes, ShownOf(shapes)[index + 1].id)
    ELSE -1

toShownIndex(index) == ToShownIndexIn(svgShapes, index)

\* Mutant of toSvgIndex: a visible index is taken for a full index.
toSvgIndexSame(index) ==
    IF index \in 0..(Len(shownShapes) - 1) THEN index ELSE -1

toSvgIndex(index) == ToSvgIndexIn(svgShapes, index)

\* Mutant of formatSelectedShapeIndex: the miss value is passed on.
formatSelectedShapeIndexRaw(index) ==
    IF index = NULL THEN NULL ELSE toShownIndex(index)

formatSelectedShapeIndex(index) ==
    IF index = NULL
    THEN NULL
    ELSE LET newIndex == toShownIndex(index)
         IN  IF newIndex = -1 THEN NULL ELSE newIndex

\* Mutant of the getter: the export flag is not read.
selectedShownShapeIndexNoExport ==
    IF editingInputIndex # NULL
    THEN formatSelectedShapeIndex(editingInputIndex)
    ELSE formatSelectedShapeIndex(selectedShapeIndex)

\* Mutant of the getter: the hovered index is read before the editing index.
selectedShownShapeIndexHoverFirst ==
    IF isExporting
    THEN NULL
    ELSE IF selectedShapeIndex # NULL
         THEN formatSelectedShapeIndex(selectedShapeIndex)
         ELSE formatSelectedShapeIndex(editingInputIndex)

\* selectedShownShapeIndex.get
selectedShownShapeIndex ==
    IF isExporting
    THEN NULL
    ELSE IF editingInputIndex # NULL
         THEN formatSelectedShapeIndex(editingInputIndex)
         ELSE formatSelectedShapeIndex(selectedShapeIndex)

isLoaded == Len(svgShapes) # 0 /\ ~isDefaultSvg

\* The number inputs keep a typed value inside [min, max].
Clamp(x, lo, hi) == IF x < lo THEN lo ELSE IF x > hi THEN hi ELSE x

\* list[index] ?? fallback, for the two default lists
ListAt(list, index, fallback) ==
    IF index + 1 \in 1..Len(list) THEN list[index + 1] ELSE fallback

\* The per-shape callback loadDefaultSvg passes to the loader.
defaultCustomShapes(shapes) ==
    [i \in 1..Len(shapes) |->
        [shapes[i] EXCEPT
            !.startZ = ListAt(defaultSvgOffsetList, i - 1,
                              defaultSvgOffsetList[Len(defaultSvgOffsetList)]),
            !.depth = ListAt(defaultSvgDepthList, i - 1, 20)]]

\* useSvgLoader().createShapesWithColor: one fresh record per outline.
createShapesWithColor(doc, custom) ==
    LET raw == [i \in 1..doc.n |->
                   [id |-> i, color |-> 0, depth |-> defaultDepth,
                    startZ |-> defaultStartZ]]
    IN  IF custom THEN defaultCustomShapes(raw) ELSE raw

\* ----------------------------------------------------------------- actions
\* Mutant of mountSVG: no size reset is queued.
mountSVGNoReset(doc, custom, thenDefault) ==
    /\ isDefaultSvg' = thenDefault
    /\ svgShapes' = createShapesWithColor(doc, custom)
    /\ sizeResetPending' = sizeResetPending

\* mountSVG, followed in loadDefaultSvg by isDefaultSvg.value = true.
mountSVG(doc, custom, thenDefault) ==
    /\ isDefaultSvg' = thenDefault
    /\ svgShapes' = createShapesWithColor(doc, custom)
    /\ sizeResetPending' = TRUE

\* The callback mountSVG queued with nextTick: it runs before any event.
SizeReset ==
    /\ sizeResetPending
    /\ UNCHANGED call
    /\ size' = defaultSize
    /\ sizeResetPending' = FALSE
    /\ UNCHANGED <<svgShapes, selectedShapeIndex, editingInputIndex, isExporting,
                   isDefaultSvg, fileName, svgCode, pending>>

Idle == ~sizeResetPending

\* pending without its k-th entry
RemoveAt(seq, k) ==
    [i \in 1..(Len(seq) - 1) |-> IF i < k THEN seq[i] ELSE seq[i + 1]]

\* loadDefaultSvg after its two awaits: the default document is mounted.
LoadDefaultDone(k) ==
    /\ Idle
    /\ UNCHANGED call
    /\ k \in 1..Len(pending)
    /\ pending[k] = "default"
    /\ pending' = RemoveAt(pending, k)
    /\ fileName' = ""
    /\ mountSVG(DefaultDoc, TRUE, TRUE)
    /\ UNCHANGED <<selectedShapeIndex, editingInputIndex, isExporting, size, svgCode>>

\* loadDefaultSvg when fetch rejects: the catch block logs, nothing is set.
LoadDefaultFail(k) ==
    /\ Idle
    /\ UNCHANGED call
    /\ k \in 1..Len(pending)
    /\ pending[k] = "default"
    /\ pending' = RemoveAt(pending, k)
    /\ UNCHANGED <<svgShapes, selectedShapeIndex, editingInputIndex, isExporting,
                   isDefaultSvg, size, fileName, svgCode, sizeResetPending>>

\* Mutant of pasteSvg: isDefaultSvg is left as it was.
pasteSvgKeepsFlag(paste) ==
    IF paste # NoCode /\ paste.valid
    THEN /\ fileName' = "Pasted file"
         /\ svgShapes' = createShapesWithColor(paste, FALSE)
         /\ sizeResetPending' = TRUE
         /\ UNCHANGED isDefaultSvg
    ELSE UNCHANGED <<fileName, isDefaultSvg, svgShapes, sizeResetPending>>

\* pasteSvg: a text that passes isValidSvg is mounted, any other is ignored.
pasteSvg(paste) ==
    IF paste # NoCode /\ paste.valid
    THEN /\ fileName' = "Pasted file"
         /\ mountSVG(paste, FALSE, FALSE)
    ELSE UNCHANGED <<fileName, isDefaultSvg, svgShapes, sizeResetPending>>

\* The document's paste listener (the target is no input and no text area).
PasteEvent(paste) ==
    /\ Idle
    /\ UNCHANGED call
    /\ pasteSvg(paste)
    /\ UNCHANGED <<selectedShapeIndex, editingInputIndex, isExporting, size,
                   svgCode, pending>>

\* The text area (v-model svgCode), rendered while no document is loaded.
TypeSvgCode(code) ==
    /\ Idle
    /\ UNCHANGED call
    /\ ~isLoaded
    /\ svgCode' = code
    /\ UNCHANGED <<svgShapes, selectedShapeIndex, editingInputIndex, isExporting,
                   isDefaultSvg, size, fileName, pending, sizeResetPending>>

\* The Convert button, rendered while svgCode passes isValidSvg.
handleInputSvgCode ==
    /\ Idle
    /\ UNCHANGED call
    /\ ~isLoaded
    /\ svgCode # NoCode /\ svgCode.valid
    /\ pasteSvg(svgCode)
    /\ svgCode' = NoCode
    /\ UNCHANGED <<selectedShapeIndex, editingInputIndex, isExporting, size, pending>>

\* Mutant of handleFileSelectedUpTo: a new ingestion cancels the pending ones.
handleFileSelectedCancels(kind, cap) ==
    /\ Idle
    /\ UNCHANGED call
    /\ svgCode = NoCode \/ isLoaded
    /\ Len(pending) < cap
    /\ pending' = <<kind>>
    /\ UNCHANGED <<svgShapes, selectedShapeIndex, editingInputIndex, isExporting,
                   isDefaultSvg, size, fileName, svgCode, sizeResetPending>>

\* handleFileSelected up to its first suspension: a raster file awaits
\* convertBitmapToSvg, any other file awaits the FileReader. The model admits
\* at most cap ingestions in flight.
handleFileSelectedUpTo(kind, cap) ==
    /\ Idle
    /\ UNCHANGED call
    /\ svgCode = NoCode \/ isLoaded          \* the drop zone is rendered
    /\ Len(pending) < cap
    /\ pending' = Append(pending, kind)
    /\ UNCHANGED <<svgShapes, selectedShapeIndex, editingInputIndex, isExporting,
                   isDefaultSvg, size, fileName, svgCode, sizeResetPending>>

handleFileSelected(kind) == handleFileSelectedUpTo(kind, MaxPending)

\* convertBitmapToSvg resolved: the rebuilt document is mounted unchecked.
RasterDone(k, doc) ==
    /\ Idle
    /\ UNCHANGED call
    /\ k \in 1..Len(pending)
    /\ pending[k] = "raster"
    /\ doc.valid /\ doc.n >= 1       \* the rebuilt document holds the background
    /\ pending' = RemoveAt(pending, k)
    /\ mountSVG(doc, FALSE, FALSE)
    /\ UNCHANGED <<selectedShapeIndex, editingInputIndex, isExporting, size,
                   fileName, svgCode>>

\* convertBitmapToSvg rejected (file.arrayBuffer failed): nothing is mounted.
RasterFail(k) ==
    /\ Idle
    /\ UNCHANGED call
    /\ k \in 1..Len(pending)
    /\ pending[k] = "raster"
    /\ pending' = RemoveAt(pending, k)
    /\ UNCHANGED <<svgShapes, selectedShapeIndex, editingInputIndex, isExporting,
                   isDefaultSvg, size, fileName, svgCode, sizeResetPending>>

\* convertBitmapToSvg never settles: the image does not decode (the promise
\* of getImageWidthHeight has no onerror and stays pending), or the tracer
\* reports an error (its callback ignores the error argument and throws on
\* svg.match before resolve). Nothing is mounted, nothing is rejected, and
\* the ingestion stays in flight for good.
RasterStall(k) ==
    /\ Idle
    /\ UNCHANGED call
    /\ k \in 1..Len(pending)
    /\ pending[k] = "raster"
    /\ pending' = [pending EXCEPT ![k] = "stalled"]
    /\ UNCHANGED <<svgShapes, selectedShapeIndex, editingInputIndex, isExporting,
                   isDefaultSvg, size, fileName, svgCode, sizeResetPending>>

\* reader.onload: the text of the file is mounted unchecked.
FileDone(k, doc) ==
    /\ Idle
    /\ UNCHANGED call
    /\ k \in 1..Len(pending)
    /\ pending[k] = "file"
    /\ pending' = RemoveAt(pending, k)
    /\ mountSVG(doc, FALSE, FALSE)
    /\ UNCHANGED <<selectedShapeIndex, editingInputIndex, isExporting, size,
                   fileName, svgCode>>

\* handleClose; its call of loadDefaultSvg suspends at the fetch.
handleCloseUpTo(cap) ==
    /\ Idle
    /\ UNCHANGED call
    /\ isLoaded                       \* the trash button is rendered
    /\ Len(pending) < cap
    /\ fileName' = ""
    /\ svgShapes' = <<>>
    /\ svgCode' = NoCode
    /\ selectedShapeIndex' = NULL
    /\ editingInputIndex' = NULL
    /\ isExporting' = FALSE
    /\ size' = defaultSize
    /\ pending' = Append(pending, "default")
    /\ UNCHANGED <<isDefaultSvg, sizeResetPending>>

handleClose == handleCloseUpTo(MaxPending)

\* The rows of the shape list are rendered while a document is loaded.
RowShown(index) == isLoaded /\ index \in 0..(Len(svgShapes) - 1)

\* Mutant of handleColorChange: the record is spliced out of the list.
handleColorChangeRemoves(index, color) ==
    /\ Idle
    /\ UNCHANGED call
    /\ RowShown(index)
    /\ svgShapes' = RemoveAt(svgShapes, index + 1)
    /\ UNCHANGED <<selectedShapeIndex, editingInputIndex, isExporting, isDefaultSvg,
                   size, fileName, svgCode, pending, sizeResetPending>>

handleColorChange(index, color) ==
    /\ Idle
    /\ UNCHANGED call
    /\ RowShown(index)
    /\ svgShapes' = [svgShapes EXCEPT ![index + 1].color = color]
    /\ UNCHANGED <<selectedShapeIndex, editingInputIndex, isExporting, isDefaultSvg,
                   size, fileName, svgCode, pending, sizeResetPending>>

\* Mutant of SetDepthIn: the typed value is stored as typed.
SetDepthInUnclamped(shapes, index, value) ==
    [shapes EXCEPT ![index + 1].depth = value]

\* The depth input (v-model item.depth, min 0, max 10).
SetDepthIn(shapes, index, value) ==
    [shapes EXCEPT ![index + 1].depth = Clamp(value, DepthMin, DepthMax)]

setDepth(index, value) ==
    /\ Idle
    /\ UNCHANGED call
    /\ RowShown(index)
    /\ svgShapes' = SetDepthIn(svgShapes, index, value)
    /\ UNCHANGED <<selectedShapeIndex, editingInputIndex, isExporting, isDefaultSvg,
                   size, fileName, svgCode, pending, sizeResetPending>>

\* The startZ input (v-model item.startZ, min -10, max 10).
SetStartZIn(shapes, index, value) ==
    [shapes EXCEPT ![index + 1].startZ = Clamp(value, StartZMin, StartZMax)]

setStartZ(index, value) ==
    /\ Idle
    /\ UNCHANGED call
    /\ RowShown(index)
    /\ svgShapes' = SetStartZIn(svgShapes, index, value)
    /\ UNCHANGED <<selectedShapeIndex, editingInputIndex, isExporting, isDefaultSvg,
                   size, fileName, svgCode, pending, sizeResetPending>>

\* @mouseenter / @mouseleave of a row
MouseEnter(index) ==
    /\ Idle
    /\ UNCHANGED call
    /\ RowShown(index)
    /\ selectedShapeIndex' = index
    /\ UNCHANGED <<svgShapes, editingInputIndex, isExporting, isDefaultSvg, size,
                   fileName, svgCode, pending, sizeResetPending>>

MouseLeave ==
    /\ Idle
    /\ UNCHANGED call
    /\ isLoaded
    /\ selectedShapeIndex' = NULL
    /\ UNCHANGED <<svgShapes, editingInputIndex, isExporting, isDefaultSvg, size,
                   fileName, svgCode, pending, sizeResetPending>>

\* @focus / @blur of the three inputs of a row
Focus(index) ==
    /\ Idle
    /\ UNCHANGED call
    /\ RowShown(index)
    /\ editingInputIndex' = index
    /\ UNCHANGED <<svgShapes, selectedShapeIndex, isExporting, isDefaultSvg, size,
                   fileName, svgCode, pending, sizeResetPending>>

Blur ==
    /\ Idle
    /\ UNCHANGED call
    /\ isLoaded
    /\ editingInputIndex' = NULL
    /\ UNCHANGED <<svgShapes, selectedShapeIndex, isExporting, isDefaultSvg, size,
                   fileName, svgCode, pending, sizeResetPending>>

\* Mutant of the setter: the two lock flags are not read.
SetSelectedShownNoLock(index) ==
    /\ Idle
    /\ UNCHANGED call
    /\ selectedShapeIndex' = toSvgIndex(index)
    /\ UNCHANGED <<svgShapes, editingInputIndex, isExporting, isDefaultSvg, size,
                   fileName, svgCode, pending, sizeResetPending>>

\* Mutant of the setter: the visible index is stored unconverted.
SetSelectedShownUnconverted(index) ==
    /\ Idle
    /\ UNCHANGED call
    /\ IF isDefaultSvg \/ isExporting
       THEN UNCHANGED selectedShapeIndex
       ELSE selectedShapeIndex' = index
    /\ UNCHANGED <<svgShapes, editingInputIndex, isExporting, isDefaultSvg, size,
                   fileName, svgCode, pending, sizeResetPending>>

\* selectedShownShapeIndex.set, the render surface's v-model write
SetSelectedShown(index) ==
    /\ Idle
    /\ UNCHANGED call
    /\ IF isDefaultSvg \/ isExporting
       THEN UNCHANGED selectedShapeIndex
       ELSE selectedShapeIndex' = toSvgIndex(index)
    /\ UNCHANGED <<svgShapes, editingInputIndex, isExporting, isDefaultSvg, size,
                   fileName, svgCode, pending, sizeResetPending>>

\* handleMeshClick with its nextTick callback: focusing the row's startZ
\* input fires that input's @focus.
handleMeshClick(index) ==
    /\ Idle
    /\ UNCHANGED call
    /\ IF isDefaultSvg \/ isExporting
       THEN UNCHANGED editingInputIndex
       ELSE LET svgIndex == toSvgIndex(index)
            IN  IF RowShown(svgIndex)
                THEN editingInputIndex' = svgIndex
                ELSE UNCHANGED editingInputIndex
    /\ UNCHANGED <<svgShapes, selectedShapeIndex, isExporting, isDefaultSvg, size,
                   fileName, svgCode, pending, sizeResetPending>>

\* The scale input (v-model size)
SetSize(value) ==
    /\ Idle
    /\ UNCHANGED call
    /\ isLoaded
    /\ size' = value
    /\ UNCHANGED <<svgShapes, selectedShapeIndex, editingInputIndex, isExporting,
                   isDefaultSvg, fileName, svgCode, pending, sizeResetPending>>

\* ModelExporter's two-way flag (v-model:is-exporting)
ExportStart ==
    /\ Idle
    /\ UNCHANGED call
    /\ isLoaded
    /\ ~isExporting
    /\ isExporting' = TRUE
    /\ UNCHANGED <<svgShapes, selectedShapeIndex, editingInputIndex, isDefaultSvg,
                   size, fileName, svgCode, pending, sizeResetPending>>

ExportEnd ==
    /\ Idle
    /\ UNCHANGED call
    /\ isExporting
    /\ isExporting' = FALSE
    /\ UNCHANGED <<svgShapes, selectedShapeIndex, editingInputIndex, isDefaultSvg,
                   size, fileName, svgCode, pending, sizeResetPending>>

AppInit ==
    /\ svgShapes = <<>>
    /\ selectedShapeIndex = NULL
    /\ editingInputIndex = NULL
    /\ isExporting = FALSE
    /\ isDefaultSvg = FALSE
    /\ size = defaultSize
    /\ fileName = ""
    /\ svgCode = NoCode
    /\ pending = <<"default">>      \* onMounted calls loadDefaultSvg
    /\ sizeResetPending = FALSE

Init == AppInit /\ call = NoCall

Next ==
    \/ SizeReset
    \/ \E k \in 1..MaxPending : LoadDefaultDone(k)
    \/ \E k \in 1..MaxPending : LoadDefaultFail(k)
    \/ \E d \in Docs : PasteEvent(d)
    \/ \E d \in CodeInputs : TypeSvgCode(d)
    \/ handleInputSvgCode
    \/ \E kind \in {"raster", "file"} : handleFileSelected(kind)
    \/ \E k \in 1..MaxPending, d \in Docs : RasterDone(k, d)
    \/ \E k \in 1..MaxPending : RasterFail(k)
    \/ \E k \in 1..MaxPending, d \in Docs : FileDone(k, d)
    \/ handleClose
    \/ \E f \in 0..(MaxShapes - 1), c \in ColorInputs : handleColorChange(f, c)
    \/ \E f \in 0..(MaxShapes - 1), x \in DepthInputs : setDepth(f, x)
    \/ \E f \in 0..(MaxShapes - 1), x \in StartZInputs : setStartZ(f, x)
    \/ \E f \in 0..(MaxShapes - 1) : MouseEnter(f)
    \/ MouseLeave
    \/ \E f \in 0..(MaxShapes - 1) : Focus(f)
    \/ Blur
    \/ \E v \in ShownIndexInputs : SetSelectedShown(v)
    \/ \E v \in ShownIndexInputs : handleMeshClick(v)
    \/ \E s \in SizeInputs : SetSize(s)
    \/ ExportStart
    \/ ExportEnd

Spec == Init /\ [][Next]_vars

\* The ingestion flows with up to MaxInFlight of them in flight: loads, clear,
\* the depth and scale inputs, and every way an ingestion ends. A stalled
\* raster ingestion is told apart here; under Spec it is an ingestion that
\* never takes its completion step.
IngestNext ==
    \/ SizeReset
    \/ \E k \in 1..MaxInFlight : LoadDefaultDone(k)
    \/ \E k \in 1..MaxInFlight : LoadDefaultFail(k)
    \/ \E d \in Docs : PasteEvent(d)
    \/ \E kind \in {"raster", "file"} : handleFileSelectedUpTo(kind, MaxInFlight)
    \/ \E k \in 1..MaxInFlight, d \in Docs : RasterDone(k, d)
    \/ \E k \in 1..MaxInFlight : RasterFail(k)
    \/ \E k \in 1..MaxInFlight : RasterStall(k)
    \/ \E k \in 1..MaxInFlight, d \in Docs : FileDone(k, d)
    \/ handleCloseUpTo(MaxInFlight)
    \/ \E f \in 0..(MaxShapes - 1), x \in DepthInputs : setDepth(f, x)
    \/ \E s \in SizeInputs : SetSize(s)

IngestSpec == Init /\ [][IngestNext]_vars


\* ---------------------------------------------------------- helper functions
\* The helper functions of the component are followed one call at a time: the
\* variable call holds the arguments, the position and the results of the
\* call, and the component's own state rests.
appVars == <<svgShapes, selectedShapeIndex, editingInputIndex, isExporting,
             isDefaultSvg, size, fileName, svgCode, pending, sizeResetPending>>

\* Texts are sequences of tokens; a token is a run of characters that the
\* searches of the code either match as a whole or not at all.
TextsOver(tokens, n) == UNION {[1..k -> tokens] : k \in 0..n}

\* Tokens of a text handed to isValidSvg: root tags and attribute names in
\* two spellings, white space, and any other run of characters.
CodeTokens == {"<svg", "<SVG", "</svg>", "viewBox", "width", "HEIGHT", " ", "x"}

\* String.prototype.toLowerCase
toLowerCaseToken(t) ==
    CASE t = "<SVG" -> "<svg"
      [] t = "viewBox" -> "viewbox"
      [] t = "HEIGHT" -> "height"
      [] OTHER -> t

toLowerCase(text) == [i \in 1..Len(text) |-> toLowerCaseToken(text[i])]

\* String.prototype.trim: white space is dropped at both ends.
trim(text) ==
    LET inked == {i \in 1..Len(text) : text[i] # " "}
    IN  IF inked = {}
        THEN <<>>
        ELSE SubSeq(text,
                    CHOOSE i \in inked : \A j \in inked : i <= j,
                    CHOOSE i \in inked : \A j \in inked : i >= j)

\* String.prototype.indexOf: the place of the first occurrence, or -1.
indexOf(text, t) ==
    IF \E i \in 1..Len(text) : text[i] = t
    THEN (CHOOSE i \in 1..Len(text) :
            text[i] = t /\ \A j \in 1..(i - 1) : text[j] # t) - 1
    ELSE -1

includes(text, t) == \E i \in 1..Len(text) : text[i] = t

\* Mutant of isValidSvg: the three attribute names are not looked for.
isValidSvgNoAttribute(code) ==
    IF code = <<>> \/ trim(code) = <<>>
    THEN FALSE
    ELSE LET lowerCode == toLowerCase(code)
             svgStart == indexOf(lowerCode, "<svg")
             svgEnd == indexOf(lowerCode, "</svg>")
         IN  svgStart # -1 /\ svgEnd # -1 /\ svgStart < svgEnd

isValidSvg(code) ==
    IF code = <<>> \/ trim(code) = <<>>
    THEN FALSE
    ELSE LET lowerCode == toLowerCase(code)
             svgStart == indexOf(lowerCode, "<svg")
             svgEnd == indexOf(lowerCode, "</svg>")
         IN  /\ svgStart # -1
             /\ svgEnd # -1
             /\ svgStart < svgEnd
             /\ \/ includes(lowerCode, "viewbox")
                \/ includes(lowerCode, "width")
                \/ includes(lowerCode, "height")

IsValidSvgCalls ==
    {[fn |-> "isValidSvg", code |-> c, done |-> FALSE, result |-> FALSE] :
        c \in TextsOver(CodeTokens, MaxCodeLen)}

CallIsValidSvg ==
    /\ call.fn = "isValidSvg"
    /\ ~call.done
    /\ call' = [call EXCEPT !.done = TRUE, !.result = isValidSvg(call.code)]
    /\ UNCHANGED appVars

\* Tokens of a tracer output: the start of the root tag, a tag end, an
\* element, and the closing root tag.
TraceTokens == {"<svg", ">", "<path/>", "</svg>"}

\* The tokens that end in the character >.
EndsTag(t) == t \in {">", "<path/>", "</svg>"}

\* svg.match(/<svg[^>]*>([\s\S]*)<\/svg>/): the first <svg, the first > behind
\* it, and the last </svg> behind that; the group is what lies in between.
\* The result is <<TRUE, group>>, or <<FALSE, <<>> >> for null.
match(svg) ==
    LET opens == {i \in 1..Len(svg) : svg[i] = "<svg"}
        open == CHOOSE i \in opens : \A j \in opens : i <= j
        ends == {i \in 1..Len(svg) : i > open /\ EndsTag(svg[i])}
        end == CHOOSE i \in ends : \A j \in ends : i <= j
        closes == {i \in 1..Len(svg) : i > end /\ svg[i] = "</svg>"}
        close == CHOOSE i \in closes : \A j \in closes : i >= j
    IN  IF opens = {} THEN <<FALSE, <<>> >>
        ELSE IF ends = {} THEN <<FALSE, <<>> >>
        ELSE IF closes = {} THEN <<FALSE, <<>> >>
        ELSE <<TRUE, SubSeq(svg, end + 1, close - 1)>>

\* Mutant of convertBitmapToSvg: the padding is added once.
convertBitmapToSvgOnePadding(imageWidth, imageHeight, svg) ==
    LET svgWidth == imageWidth + padding
        svgHeight == imageHeight + padding
        contentMatch == match(svg)
        content == IF contentMatch[1] THEN contentMatch[2] ELSE <<>>
    IN  [width |-> svgWidth, height |-> svgHeight,
         viewBox |-> <<0, 0, svgWidth, svgHeight>>,
         rect |-> [x |-> 0, y |-> 0, width |-> svgWidth, height |-> svgHeight,
                   rx |-> cornerRadius, ry |-> cornerRadius, fill |-> "white"],
         g |-> [translate |-> <<padding, padding>>, content |-> content]]

\* The document the tracer callback resolves with, element by element.
convertBitmapToSvg(imageWidth, imageHeight, svg) ==
    LET svgWidth == imageWidth + padding * 2
        svgHeight == imageHeight + padding * 2
        contentMatch == match(svg)
        content == IF contentMatch[1] THEN contentMatch[2] ELSE <<>>
    IN  [width |-> svgWidth, height |-> svgHeight,
         viewBox |-> <<0, 0, svgWidth, svgHeight>>,
         rect |-> [x |-> 0, y |-> 0, width |-> svgWidth, height |-> svgHeight,
                   rx |-> cornerRadius, ry |-> cornerRadius, fill |-> "white"],
         g |-> [translate |-> <<padding, padding>>, content |-> content]]

ConvertCalls ==
    {[fn |-> "convertBitmapToSvg", imageWidth |-> w, imageHeight |-> h,
      svg |-> t, done |-> FALSE, result |-> <<>>] :
        w \in 1..MaxImage, h \in 1..MaxImage, t \in TextsOver(TraceTokens, MaxCodeLen)}

CallConvertBitmapToSvg ==
    /\ call.fn = "convertBitmapToSvg"
    /\ ~call.done
    /\ call' = [call EXCEPT
                   !.done = TRUE,
                   !.result = convertBitmapToSvg(call.imageWidth, call.imageHeight,
                                                 call.svg)]
    /\ UNCHANGED appVars

\* new Brush(geometry): the world matrix is not yet computed.
Brush(geometry) == [geometry |-> geometry, matrixWorldUpdated |-> FALSE]

\* Mutant of updateMatrixWorld: the call is left out.
updateMatrixWorldSkipped(brush) == brush

updateMatrixWorld(brush) == [brush EXCEPT !.matrixWorldUpdated = TRUE]

CylinderGeometry(radiusTop, radiusBottom, height, segments) ==
    [radiusTop |-> radiusTop, radiusBottom |-> radiusBottom, height |-> height,
     radialSegments |-> segments]

\* Evaluator.evaluate: the result is known by what went in.
evaluate(a, b, operation) == [a |-> a, b |-> b, operation |-> operation]

\* No object yet.
Unset == <<>>

SubtractCylinderCalls ==
    {[fn |-> "subtractCylinder", geometry |-> g, pc |-> 6, originalBrush |-> Unset,
      cylinderGeometry |-> Unset, cylinderBrush |-> Unset, evaluator |-> FALSE,
      evaluations |-> <<>>, result |-> Unset, returned |-> Unset] :
        g \in 1..MaxGeometry}

\* subtractCylinder, one statement a step; pc is the line of the statement
\* to run next, 19 after the return.
StepSubtractCylinder ==
    /\ call.fn = "subtractCylinder"
    /\ call.pc < 19
    /\ call' =
          CASE call.pc = 6 ->
                 [call EXCEPT !.originalBrush = Brush(call.geometry), !.pc = 7]
            [] call.pc = 7 ->
                 [call EXCEPT !.originalBrush = updateMatrixWorld(call.originalBrush),
                              !.pc = 11]
            [] call.pc = 11 ->
                 [call EXCEPT !.cylinderGeometry =
                                  CylinderGeometry(cylinderRadius, cylinderRadius,
                                                   cylinderHeight, radialSegments),
                              !.pc = 12]
            [] call.pc = 12 ->
                 [call EXCEPT !.cylinderBrush = Brush(call.cylinderGeometry), !.pc = 13]
            [] call.pc = 13 ->
                 [call EXCEPT !.cylinderBrush = updateMatrixWorld(call.cylinderBrush),
                              !.pc = 15]
            [] call.pc = 15 ->
                 [call EXCEPT !.evaluator = TRUE, !.pc = 16]
            [] call.pc = 16 ->
                 [call EXCEPT
                     !.evaluations = Append(call.evaluations,
                                            <<call.originalBrush, call.cylinderBrush,
                                              "SUBTRACTION">>),
                     !.result = evaluate(call.originalBrush, call.cylinderBrush,
                                         "SUBTRACTION"),
                     !.pc = 18]
            [] call.pc = 18 ->
                 [call EXCEPT !.returned = call.result, !.pc = 19]
    /\ UNCHANGED appVars

FnInit ==
    /\ AppInit
    /\ call \in IsValidSvgCalls \cup ConvertCalls \cup SubtractCylinderCalls

FnNext ==
    \/ CallIsValidSvg
    \/ CallConvertBitmapToSvg
    \/ StepSubtractCylinder

FnSpec == FnInit /\ [][FnNext]_vars

\* ------------------------------------------------------------------ claims
\* Reference definitions of the specification's vocabulary, written from the
\* shape records alone (no findIndex, no filter).
FullIndices == 0..(Len(svgShapes) - 1)
VisibleIndices == 0..(Len(shownShapes) - 1)
DepthOf(f) == svgShapes[f + 1].depth
IdsOf(shapes) == [i \in 1..Len(shapes) |-> shapes[i].id]

\* toVisibleIndex of the specification: the number of visible shapes before
\* f, NONE (NULL) for a hidden shape or no shape.
VisibleIndexOf(shapes, f) ==
    IF f \in 0..(Len(shapes) - 1) /\ shapes[f + 1].depth > 0
    THEN Cardinality({g \in 0..(f - 1) : shapes[g + 1].depth > 0})
    ELSE NULL

\* The program's two values for "no index": null, and the -1 of findIndex.
NoIndex(i) == i = NULL \/ i = -1

\* A step that mounts a document: load() of the specification.
LoadStep ==
    \/ \E d \in Docs : d.valid /\ PasteEvent(d)
    \/ handleInputSvgCode
    \/ \E k \in 1..MaxPending, d \in Docs : RasterDone(k, d)
    \/ \E k \in 1..MaxPending, d \in Docs : FileDone(k, d)
    \/ \E k \in 1..MaxPending : LoadDefaultDone(k)

\* C1: toShownIndex and toSvgIndex are mutually inverse on the visible set:
\* toSvgIndex(toShownIndex(f)) = f for every full index f of a shape with
\* depth > 0, and toShownIndex(toSvgIndex(v)) = v for every visible index v.
C1_RoundTrip ==
    /\ \A f \in FullIndices : DepthOf(f) > 0 => toSvgIndex(toShownIndex(f)) = f
    /\ \A v \in VisibleIndices : toShownIndex(toSvgIndex(v)) = v

\* C1 witness: a visible shape behind a hidden one, so that its two indices
\* differ and the round trip has to undo the shift.
C1_Witness ==
    \E f \in FullIndices :
        /\ DepthOf(f) > 0
        /\ toShownIndex(f) \in VisibleIndices
        /\ toShownIndex(f) # f
        /\ toSvgIndex(toShownIndex(f)) = f

\* C2: hidden shapes never appear on the visible side: a shape of depth 0 and
\* the null index map to no visible index, every visible index maps back to a
\* shape of depth > 0, and shownShapes is the subsequence of the records with
\* depth > 0 in the order of the full list.
C2_HiddenNeverVisible ==
    /\ \A f \in FullIndices :
          DepthOf(f) = 0 => toShownIndex(f) = -1 /\ formatSelectedShapeIndex(f) = NULL
    /\ formatSelectedShapeIndex(NULL) = NULL
    /\ \A v \in VisibleIndices :
          toSvgIndex(v) \in FullIndices /\ DepthOf(toSvgIndex(v)) > 0
    /\ shownShapes = SelectSeq(svgShapes, LAMBDA s : s.depth > 0)
    /\ \A v, w \in VisibleIndices : v < w => toSvgIndex(v) < toSvgIndex(w)

\* C2 witness: a loaded user document with a hidden and a visible shape.
C2_Witness ==
    /\ isLoaded
    /\ \E f, g \in FullIndices : DepthOf(f) = 0 /\ DepthOf(g) > 0

\* A step in which the depth input sets the visible shape f to depth 0.
HidesShape(f) ==
    /\ RowShown(f)
    /\ DepthOf(f) > 0
    /\ Len(svgShapes') = Len(svgShapes)
    /\ svgShapes'[f + 1].depth = 0
    /\ \E x \in DepthInputs : setDepth(f, x)

\* C3: setting the depth of the visible shape f to 0 removes exactly that
\* shape from shownShapes: the shapes before f keep their visible index, the
\* visible shapes after f have it decreased by one; setting the depth back to
\* a value > 0 restores every shape's visible index.
C3_HideShiftsByOne ==
    [][\A f \in 0..(MaxShapes - 1) : HidesShape(f) =>
        /\ Len(shownShapes') = Len(shownShapes) - 1
        /\ IdsOf(shownShapes') =
              IdsOf(SelectSeq(shownShapes, LAMBDA s : s.id # svgShapes[f + 1].id))
        /\ toShownIndex(f)' = -1
        /\ \A g \in FullIndices :
              /\ g < f => toShownIndex(g)' = toShownIndex(g)
              /\ (g > f /\ DepthOf(g) > 0) => toShownIndex(g)' = toShownIndex(g) - 1
        /\ \A x \in DepthInputs \cup {DepthOf(f)} :
              Clamp(x, DepthMin, DepthMax) > 0 =>
                 \A g \in FullIndices :
                    ToShownIndexIn(SetDepthIn(svgShapes', f, x), g) = toShownIndex(g)
      ]_vars

\* C3 witness: a loaded document in which a shape was hidden and a visible
\* shape after it has moved up by one.
C3_Witness ==
    /\ isLoaded
    /\ \E f, g \in FullIndices :
          f < g /\ DepthOf(f) = 0 /\ DepthOf(g) > 0 /\ toShownIndex(g) = g - 1

\* C4: while isExporting is true the selection read is null, whatever the
\* hovered index, the editing index and the shape list are.
C4_ExportingReadsNone == isExporting => selectedShownShapeIndex = NULL

\* C4 witness: exporting while the editing index names a visible shape.
C4_Witness ==
    /\ isExporting
    /\ editingInputIndex # NULL
    /\ formatSelectedShapeIndex(editingInputIndex) # NULL
    /\ selectedShownShapeIndex = NULL

\* C5: after every load the hovered index and the editing index are null and
\* the export flag is false.
C5_LoadClearsSelection ==
    [][LoadStep =>
        /\ NoIndex(selectedShapeIndex')
        /\ NoIndex(editingInputIndex')
        /\ ~isExporting'
      ]_vars

\* A selection write or a mesh click arriving while a lock flag is set.
LockedWrite ==
    /\ isDefaultSvg \/ isExporting
    /\ \/ \E v \in ShownIndexInputs : SetSelectedShown(v)
       \/ \E v \in ShownIndexInputs : handleMeshClick(v)

\* C6: a selection write or a mesh click made while isDefaultSvg or
\* isExporting is true changes no state.
C6_LockedWriteIgnored == [][LockedWrite => UNCHANGED vars]_vars

\* C6 witness: a lock flag is set, an index is hovered, and the render
\* surface has an index to send that would move the hovered index.
C6_Witness ==
    /\ isExporting
    /\ selectedShapeIndex \in FullIndices
    /\ \E v \in VisibleIndices : toSvgIndex(v) # selectedShapeIndex

C8_EditingPriority ==
    ~isExporting =>
        selectedShownShapeIndex =
            IF editingInputIndex # NULL
            THEN VisibleIndexOf(svgShapes, editingInputIndex)
            ELSE VisibleIndexOf(svgShapes, selectedShapeIndex)

\* C8 witness: the edited shape is hidden while a visible shape is hovered,
\* and the read is null.
C8_Witness ==
    /\ ~isExporting
    /\ editingInputIndex \in FullIndices
    /\ DepthOf(editingInputIndex) = 0
    /\ selectedShapeIndex \in FullIndices
    /\ DepthOf(selectedShapeIndex) > 0
    /\ selectedShownShapeIndex = NULL

EditStep ==
    \/ \E f \in 0..(MaxShapes - 1), c \in ColorInputs : handleColorChange(f, c)
    \/ \E f \in 0..(MaxShapes - 1), x \in DepthInputs : setDepth(f, x)
    \/ \E f \in 0..(MaxShapes - 1), x \in StartZInputs : setStartZ(f, x)
    \/ \E f \in 0..(MaxShapes - 1) : MouseEnter(f)
    \/ MouseLeave
    \/ \E f \in 0..(MaxShapes - 1) : Focus(f)
    \/ Blur
    \/ \E v \in ShownIndexInputs : SetSelectedShown(v)
    \/ \E v \in ShownIndexInputs : handleMeshClick(v)
    \/ ExportStart
    \/ ExportEnd

\* C10: the list changes its members only in a load or a clear: color, depth
\* and startZ edits, selection writes and export start and end keep the
\* length and the order of the list; a clear leaves the list empty, both
\* indices null, the export flag false and the scale target at its default.
C10_OnlyLoadOrClearChangeList ==
    [][/\ IdsOf(svgShapes') # IdsOf(svgShapes) => ~EditStep /\ (LoadStep \/ handleClose)
       /\ handleClose =>
            /\ svgShapes' = <<>>
            /\ selectedShapeIndex' = NULL
            /\ editingInputIndex' = NULL
            /\ ~isExporting'
            /\ size' = defaultSize
      ]_vars

\* C10 witness: every shape of a full-length document has had its color
\* changed and the list still has all its records in order.
C10_Witness ==
    /\ isLoaded
    /\ Len(svgShapes) = MaxShapes
    /\ \A i \in 1..Len(svgShapes) : svgShapes[i].color = 1 /\ svgShapes[i].id = i

\* C11: every load queues the reset of the scale target, and from a state
\* with the reset queued the only step is the reset itself, which leaves the
\* scale target at its default of 37: no event is handled in between.
C11_LoadResetsSize ==
    [][/\ sizeResetPending' \/ ~LoadStep
       /\ sizeResetPending => size' = 37 /\ ~sizeResetPending'
      ]_vars

\* C11 witness: a document was mounted while the scale target the user had
\* typed on the previous document is still in place.
C11_Witness ==
    /\ sizeResetPending
    /\ size \in SizeInputs
    /\ size # 37

\* A document that fails isValidSvg arrives on one of the ingestion paths.
InvalidIngestStep ==
    \/ \E d \in Docs : ~d.valid /\ PasteEvent(d)
    \/ svgCode # NoCode /\ ~svgCode.valid /\ handleInputSvgCode
    \/ \E k \in 1..MaxPending, d \in Docs : ~d.valid /\ FileDone(k, d)

\* C12: a document that fails isValidSvg changes nothing on any ingestion
\* path (paste, text area, selected file): the shape list, isDefaultSvg, the
\* file name, both selection indices and the scale target stay as they were.
C12_InvalidRejected ==
    [][InvalidIngestStep =>
          UNCHANGED <<svgShapes, isDefaultSvg, fileName, selectedShapeIndex,
                      editingInputIndex, size>>
      ]_vars

\* C19: the selection read is null or an index into shownShapes, whatever
\* the hovered and the editing index hold.
C19_ReadNoneOrVisible ==
    selectedShownShapeIndex = NULL \/ selectedShownShapeIndex \in VisibleIndices

\* C19 witness: the editing index is stale (it names no shape of the list
\* mounted since), a visible shape exists, and the read is null.
C19_Witness ==
    /\ ~isExporting
    /\ editingInputIndex # NULL
    /\ editingInputIndex \notin FullIndices
    /\ Len(shownShapes) > 0
    /\ selectedShownShapeIndex = NULL

\* The document state of the component.
docVars == <<svgShapes, isDefaultSvg, fileName, selectedShapeIndex,
             editingInputIndex, isExporting, size, sizeResetPending>>

\* C13: a raster ingestion whose decoding or tracing fails ends as a rejected
\* operation (it is no longer in flight) and loads no document: the document
\* state is the one before the failure.
C13_RasterFailureRejected ==
    [][\A k \in 1..MaxInFlight :
          (RasterFail(k) \/ RasterStall(k)) =>
              /\ Len(pending') = Len(pending) - 1
              /\ \A i \in 1..Len(pending') : pending'[i] # "stalled"
              /\ UNCHANGED docVars
      ]_vars

\* C14: the result of an asynchronous step is not applied over a document
\* that changed while the step was in flight. A fetch of the default
\* document always starts from the empty list (onMounted, handleClose), so a
\* non-empty list at its completion was mounted in between and stays.
C14_StaleResultNotApplied ==
    [][\A k \in 1..MaxInFlight :
          (svgShapes # <<>> /\ LoadDefaultDone(k)) =>
              UNCHANGED <<svgShapes, isDefaultSvg, fileName>>
      ]_vars

\* C15: ingestions are neither cancelled nor de-duplicated. Starting one
\* appends it behind the pending ones, also behind one of its own kind; an
\* entry leaves the pending ones only in a step of its own, which removes
\* that entry alone and keeps the others in order; a completing file or
\* raster ingestion, whatever its place in the start order, mounts its own
\* document over the one shown.
C15_NoCancelNoDedup ==
    [][/\ \A kind \in {"raster", "file"} :
             handleFileSelectedUpTo(kind, MaxInFlight) =>
                 /\ Len(pending') = Len(pending) + 1
                 /\ SubSeq(pending', 1, Len(pending)) = pending
                 /\ pending'[Len(pending')] = kind
       /\ Len(pending') < Len(pending) =>
             \E k \in 1..Len(pending) :
                 /\ Len(pending') = Len(pending) - 1
                 /\ \A i \in 1..Len(pending') :
                       pending'[i] = pending[IF i < k THEN i ELSE i + 1]
                 /\ \/ LoadDefaultDone(k) \/ LoadDefaultFail(k) \/ RasterFail(k)
                    \/ \E d \in Docs : RasterDone(k, d) \/ FileDone(k, d)
       /\ \A k \in 1..MaxInFlight, d \in Docs :
             (RasterDone(k, d) \/ FileDone(k, d)) =>
                 /\ Len(svgShapes') = d.n
                 /\ \A i \in 1..d.n : svgShapes'[i].depth = 20 /\ svgShapes'[i].color = 0
                 /\ ~isDefaultSvg'
                 /\ sizeResetPending'
      ]_vars

\* C15 witness: a file ingestion has just mounted its (empty) document while
\* a raster ingestion started beside it is still pending: only reader.onload
\* mounts an empty list without setting the file name.
C15_Witness ==
    /\ pending = <<"raster">>
    /\ sizeResetPending
    /\ svgShapes = <<>>
    /\ ~isDefaultSvg
    /\ fileName = ""

\* A step that mounts a user document.
UserLoadStep ==
    \/ \E d \in Docs : d.valid /\ PasteEvent(d)
    \/ \E k \in 1..MaxInFlight, d \in Docs : RasterDone(k, d)
    \/ \E k \in 1..MaxInFlight, d \in Docs : FileDone(k, d)

\* C20: isDefaultSvg agrees with the origin of the list under every
\* interleaving of fetch completions, user loads and clears: while the flag is
\* true the list is the one built from the default document (three shapes
\* with the depths and offsets of the default lists); a step that mounts a
\* user document leaves the flag false; and the flag turns true only in the
\* step that mounts the default document.
C20_FlagAgreesWithOrigin ==
    [][/\ isDefaultSvg' =>
             /\ Len(svgShapes') = DefaultDocShapes
             /\ \A i \in 1..Len(svgShapes') :
                   /\ svgShapes'[i].depth = ListAt(<<21, 0, 10, 10, 10, 20, 10, 14, 16>>, i - 1, 20)
                   /\ svgShapes'[i].startZ = ListAt(<<0, 21>>, i - 1, 21)
       /\ UserLoadStep => ~isDefaultSvg'
       /\ (isDefaultSvg' /\ ~isDefaultSvg) => \E k \in 1..MaxInFlight : LoadDefaultDone(k)
      ]_vars

\* C20 witness: the default document is shown while a second fetch of it,
\* started by a clear of a user document, is still in flight.
C20_Witness ==
    /\ isDefaultSvg
    /\ pending = <<"default">>

\* Vocabulary of C16, read off the tokens: a text is blank when it is empty
\* or white space only; the root tags and the attribute names in any case.
Blank(code) == \A i \in 1..Len(code) : code[i] = " "
OpeningTagAt(code, i) == code[i] \in {"<svg", "<SVG"}
ClosingTagAt(code, i) == code[i] = "</svg>"
HasAttributeName(code) ==
    \E i \in 1..Len(code) : code[i] \in {"viewBox", "width", "HEIGHT"}

\* C16 as stated: isValidSvg is false for a blank text, and otherwise true
\* exactly when some opening root tag lies before some closing root tag and
\* one of the three attribute names occurs.
C16_ValidIffTagBeforeTag ==
    (call.fn = "isValidSvg" /\ call.done) =>
        call.result =
            (/\ ~Blank(call.code)
             /\ \E i, j \in 1..Len(call.code) :
                   i < j /\ OpeningTagAt(call.code, i) /\ ClosingTagAt(call.code, j)
             /\ HasAttributeName(call.code))

\* C16 amended: isValidSvg is false for a blank text, and otherwise true
\* exactly when the first opening root tag lies before the first closing
\* root tag and one of the three attribute names occurs.
C16_ValidIffFirstTagBeforeFirstTag ==
    (call.fn = "isValidSvg" /\ call.done) =>
        call.result =
            (/\ ~Blank(call.code)
             /\ \E i, j \in 1..Len(call.code) :
                   /\ i < j
                   /\ OpeningTagAt(call.code, i)
                   /\ \A h \in 1..(i - 1) : ~OpeningTagAt(call.code, h)
                   /\ ClosingTagAt(call.code, j)
                   /\ \A h \in 1..(j - 1) : ~ClosingTagAt(call.code, h)
             /\ HasAttributeName(call.code))

\* C16 witness: a text with a closing tag in front of an opening tag that is
\* itself closed, and with an attribute name, was found invalid.
C16_Witness ==
    /\ call.fn = "isValidSvg"
    /\ call.done
    /\ ~call.result
    /\ HasAttributeName(call.code)
    /\ \E h, i, j \in 1..Len(call.code) :
          /\ h < i /\ i < j
          /\ ClosingTagAt(call.code, h)
          /\ OpeningTagAt(call.code, i)
          /\ ClosingTagAt(call.code, j)

\* The tracer output holds no root tag: no <svg with a tag end behind it and
\* a closing tag behind that.
NoRootTagMatch(svg) ==
    ~\E i, j, k \in 1..Len(svg) :
        i < j /\ j < k /\ svg[i] = "<svg" /\ EndsTag(svg[j]) /\ svg[k] = "</svg>"

\* C17: for an image of w x h pixels the rebuilt document has a canvas of
\* (w + 16) x (h + 16), a background rectangle over the whole canvas with
\* corner radius 8, and the traced content in a group translated by (8, 8);
\* the content is empty when the tracer output holds no root tag, and is the
\* inside of the root element when the output is one root element.
C17_CanvasPaddedBy16 ==
    (call.fn = "convertBitmapToSvg" /\ call.done) =>
        LET r == call.result
            w == call.imageWidth
            h == call.imageHeight
        IN  /\ r.width = w + 16 /\ r.height = h + 16
            /\ r.viewBox = <<0, 0, w + 16, h + 16>>
            /\ r.rect.x = 0 /\ r.rect.y = 0
            /\ r.rect.width = w + 16 /\ r.rect.height = h + 16
            /\ r.rect.rx = 8 /\ r.rect.ry = 8
            /\ r.g.translate = <<8, 8>>
            /\ NoRootTagMatch(call.svg) => r.g.content = <<>>
            /\ \A body \in TextsOver({"<path/>"}, MaxCodeLen) :
                  call.svg = <<"<svg", ">">> \o body \o <<"</svg>">> =>
                      r.g.content = body

\* C17 witness: a tracer output with an element but no root tag, for an image
\* that is not square, was rebuilt with empty content.
C17_Witness ==
    /\ call.fn = "convertBitmapToSvg"
    /\ call.done
    /\ call.imageWidth # call.imageHeight
    /\ \E i \in 1..Len(call.svg) : call.svg[i] = "<path/>"
    /\ NoRootTagMatch(call.svg)
    /\ call.result.g.content = <<>>

\* C18: in every call of subtractCylinder the evaluator is invoked once, at
\* line 16 and not before; its first operand is the brush of the given
\* geometry and its second the brush of a cylinder of radius 2.5, height 100
\* and 32 segments, both with their world matrix updated by then; the
\* operation is the subtraction; and the value returned is the evaluator's
\* result as it came.
C18_EvaluatedOnceAfterUpdates ==
    call.fn = "subtractCylinder" =>
        /\ Len(call.evaluations) = IF call.pc > 16 THEN 1 ELSE 0
        /\ \A n \in 1..Len(call.evaluations) :
              LET e == call.evaluations[n]
              IN  /\ e[1] = [geometry |-> call.geometry, matrixWorldUpdated |-> TRUE]
                  /\ e[2] = [geometry |-> [radiusTop |-> 25, radiusBottom |-> 25,
                                           height |-> 1000, radialSegments |-> 32],
                             matrixWorldUpdated |-> TRUE]
                  /\ e[3] = "SUBTRACTION"
                  /\ call.result = evaluate(e[1], e[2], e[3])
        /\ call.pc = 19 => call.returned = call.result

\* C18 witness: a call has returned after its one evaluation.
C18_Witness ==
    /\ call.fn = "subtractCylinder"
    /\ call.pc = 19
    /\ Len(call.evaluations) = 1
    /\ call.returned = call.result
====
